---------------------------- MODULE Spec2Model ----------------------------
(***************************************************************************)
(* Model of the memory-telemetry analysis of go-weisyn:                    *)
(*   scripts/analyze_memory_from_logs.py  (log scan, hourly windows,       *)
(*                                         summary verdict)                *)
(*   scripts/memory_analysis.py           (live snapshot: ranking, total,  *)
(*                                         flags)                          *)
(*                                                                         *)
(* Modelling conventions                                                   *)
(*  - A JSON value is a record [t, n, s]: t is its JSON type ("absent"     *)
(*    when the key is missing from the object), n its number (or, for an   *)
(*    ISO-8601 time string, the instant it denotes and, for a list, its    *)
(*    length), s its text class for strings.                               *)
(*  - A timestamp is a number of minutes since an epoch.  A log source is  *)
(*    written with UTC offsets that are whole hours, so that               *)
(*    datetime.replace(minute=0, second=0, microsecond=0) is the instant   *)
(*    rounded down to a multiple of MinutesPerHour.                        *)
(*  - The numeric telemetry fields carry JSON numbers (integers here).     *)
(*  - The two scripts are separate programs: a behaviour runs one of them  *)
(*    and leaves the variables of the other at their idle values.          *)
(*  - Byte counts are below 2^53, where dividing a float by 1024 and       *)
(*    adding such quotients is exact.                                      *)
(***************************************************************************)
EXTENDS Integers, Sequences, FiniteSets, TLC

VARIABLES
    fileExists,         \* log_path.exists()
    lines,              \* the lines of the log file, in file order
    pc,                 \* position of main()
    lineNo,             \* number of lines parse_log_file has visited
    parsed,             \* outcome of parse_log_line for each visited line
    samples,            \* the list `samples`
    exc,                \* the exception that ended the run ("" if none)
    exit_status,        \* process exit status (-1 while running)
    csv_rows,           \* rows written by generate_csv_report (after the header)
    csv_written,        \* generate_csv_report has run
    hourly_called,      \* calculate_hourly_growth has been invoked
    hourly_stats,       \* the list `hourly_stats`
    current_hour_start, \* calculate_hourly_growth: anchor of the open bucket
    hour_samples,       \* calculate_hourly_growth: samples of the open bucket
    idx,                \* calculate_hourly_growth: samples consumed by the for loop
    summary,            \* what generate_summary_report produced
    response,           \* memory_analysis: what the endpoint answers
    requests,           \* memory_analysis: calls of urlopen made
    mpc,                \* memory_analysis: position of main()
    live_status,        \* memory_analysis: exit status (-1 while running)
    modules,            \* analyze_memory: the list `modules`
    sorted_modules,     \* analyze_memory: the list `sorted_modules`
    cursor,             \* analyze_memory: records consumed by the current loop
    table,              \* analyze_memory: rows printed in the ranking table
    total_memory,       \* analyze_memory: `total_memory`, in MB
    total_row,          \* analyze_memory: the total printed under the table
    issues,             \* analyze_memory: the list `issues`
    warnings,           \* analyze_memory: the list `warnings`
    result              \* analyze_memory: how the analysis ended

log_vars == <<fileExists, lines, pc, lineNo, parsed, samples, exc, exit_status,
              csv_rows, csv_written, hourly_called, hourly_stats,
              current_hour_start, hour_samples, idx, summary>>

live_vars == <<response, requests, mpc, live_status, modules, sorted_modules,
               cursor, table, total_memory, total_row, issues, warnings,
               result>>

vars == <<log_vars, live_vars>>

-----------------------------------------------------------------------------
(* Bounds of the model *)

MaxLines == 3       \* longest log file of the end-to-end runs
MaxSamples == 4     \* longest sample list handed to calculate_hourly_growth
MaxMiddle == 1      \* most samples between the first and the last of a run
MaxModules == 2     \* most module records of a live snapshot

-----------------------------------------------------------------------------
(* JSON values *)

Absent == [t |-> "absent", n |-> 0, s |-> ""]
Null == [t |-> "null", n |-> 0, s |-> ""]
Num(n) == [t |-> "num", n |-> n, s |-> ""]
Str(s) == [t |-> "str", n |-> 0, s |-> s]
\* an ISO-8601 string denoting instant n, written with a numeric offset
Iso(n) == [t |-> "str", n |-> n, s |-> "iso"]
\* the same instant written with the suffix 'Z'
IsoZ(n) == [t |-> "str", n |-> n, s |-> "isoZ"]
\* a JSON list of n module entries
List(n) == [t |-> "list", n |-> n, s |-> ""]

\* dict.get(key, default)
Get(d, key, default) == IF d[key].t = "absent" THEN default ELSE d[key]

\* the Python list a JSON list of n entries decodes to (entries are opaque)
ModuleList(n) == [i \in 1..n |-> i]

-----------------------------------------------------------------------------
(* Log lines.  A line is what parse_log_line reads of it:                  *)
(*   marker      'memory_sample' occurs in the text                        *)
(*   json_start  line.find('{')        (-1 when the line has no '{')       *)
(*   json_end    line.rfind('}') + 1   ( 0 when the line has no '}')       *)
(*   valid       json.loads accepts the text line[json_start:json_end]     *)
(*   entry       the object that text decodes to (text that starts with    *)
(*               '{', ends with '}' and is valid JSON is an object)        *)

Keys == {"msg", "time", "ts", "rss_mb", "rss_bytes", "heap_mb",
         "heap_alloc_bytes", "heap_inuse_bytes", "gc", "goroutines", "modules"}

EmptyEntry == [k \in Keys |-> Absent]

\* line[json_start:json_end]: empty when the last '}' precedes the first '{'
JsonSlice(line) ==
    IF line.json_start < line.json_end THEN "text" ELSE ""

\* json.loads(json_str): the decoded object, or JSONDecodeError
JsonLoads(line) ==
    IF JsonSlice(line) # "" /\ line.valid
    THEN [ok |-> TRUE, entry |-> line.entry]
    ELSE [ok |-> FALSE, entry |-> EmptyEntry]

-----------------------------------------------------------------------------
(* MemorySample *)

NoSample ==
    [time |-> 0, rss_mb |-> 0, rss_bytes |-> 0, heap_mb |-> 0,
     heap_alloc_bytes |-> 0, heap_inuse_bytes |-> 0, gc |-> 0,
     goroutines |-> 0, modules |-> <<>>]

Returned(sample) == [kind |-> "sample", sample |-> sample, exc |-> ""]
ReturnedNone == [kind |-> "none", sample |-> NoSample, exc |-> ""]
Raised(e) == [kind |-> "raise", sample |-> NoSample, exc |-> e]

\* str.replace('Z', '+00:00') on a time string
ReplaceZ(v) == IF v.s = "isoZ" THEN Iso(v.n) ELSE v

\* datetime.fromisoformat accepts the string
IsIsoFormat(v) == v.s = "iso"

\* MemorySample.__init__(data): only a str has .replace; fromisoformat raises
\* ValueError on text that is no ISO-8601 time; every other key has a default
MemorySampleInit(data) ==
    IF data["time"].t # "str"
    THEN Raised("AttributeError")
    ELSE IF ~IsIsoFormat(ReplaceZ(data["time"]))
    THEN Raised("ValueError")
    ELSE Returned(
        [time |-> ReplaceZ(data["time"]).n,
         rss_mb |-> Get(data, "rss_mb", Num(0)).n,
         rss_bytes |-> Get(data, "rss_bytes", Num(0)).n,
         heap_mb |-> Get(data, "heap_mb", Num(0)).n,
         heap_alloc_bytes |-> Get(data, "heap_alloc_bytes", Num(0)).n,
         heap_inuse_bytes |-> Get(data, "heap_inuse_bytes", Num(0)).n,
         gc |-> Get(data, "gc", Num(0)).n,
         goroutines |-> Get(data, "goroutines", Num(0)).n,
         modules |-> ModuleList(Get(data, "modules", List(0)).n)])

\* any record that has a msg is taken, its kind is not compared (fault
\* injected for C2)
IsMemorySampleEntry_AnyKind(log_entry) == log_entry["msg"].t = "str"

\* the check of the record kind: log_entry.get('msg') != 'memory_sample'
IsMemorySampleEntry(log_entry) == log_entry["msg"] = Str("memory_sample")

\* 'heap_inuse_bytes' copied from the line above it, key and all (fault
\* injected for C3)
SampleData_CopiedKey(log_entry) ==
    [k \in Keys \ {"msg", "ts"} |->
        IF k = "time"
        THEN Get(log_entry, "time", Get(log_entry, "ts", Str("")))
        ELSE IF k = "modules"
        THEN Get(log_entry, k, List(0))
        ELSE IF k = "heap_inuse_bytes"
        THEN Get(log_entry, "heap_alloc_bytes", Num(0))
        ELSE Get(log_entry, k, Num(0))]

\* the dict sample_data built from log_entry
SampleData(log_entry) ==
    [k \in Keys \ {"msg", "ts"} |->
        IF k = "time"
        THEN Get(log_entry, "time", Get(log_entry, "ts", Str("")))
        ELSE IF k = "modules"
        THEN Get(log_entry, k, List(0))
        ELSE Get(log_entry, k, Num(0))]

\* the except clause: (json.JSONDecodeError, KeyError, ValueError) -> None
Caught(e) == e \in {"JSONDecodeError", "KeyError", "ValueError"}

Except(r) == IF r.kind = "raise" /\ Caught(r.exc) THEN ReturnedNone ELSE r

parse_log_line(line) ==
    IF ~line.marker
    THEN ReturnedNone
    ELSE Except(
        IF line.json_start = -1 \/ line.json_end = 0
        THEN ReturnedNone
        ELSE IF ~JsonLoads(line).ok
        THEN Raised("JSONDecodeError")
        ELSE IF ~IsMemorySampleEntry(JsonLoads(line).entry)
        THEN ReturnedNone
        ELSE MemorySampleInit(SampleData(JsonLoads(line).entry)))

\* a sample equal to the one before it is taken for a repeat and skipped
\* (fault injected for C4)
Collect_SkipRepeat(list, r) ==
    IF r.kind = "sample" /\ (list = <<>> \/ list[Len(list)] # r.sample)
    THEN Append(list, r.sample)
    ELSE list

\* parse_log_file's loop body: `if sample: samples.append(sample)`
Collect(list, r) == IF r.kind = "sample" THEN Append(list, r.sample) ELSE list

-----------------------------------------------------------------------------
(* calculate_hourly_growth *)

MinutesPerHour == 60
BytesPerMB == 1024 * 1024

\* minute=0 left out of the replace call (fault injected for C6 and C9)
TruncHour_KeepsMinute(t) == t

\* time.replace(minute=0, second=0, microsecond=0)
TruncHour(t) == (t \div MinutesPerHour) * MinutesPerHour

\* a float quotient, kept exact as numerator and denominator (den > 0)
Ratio(num, den) == [num |-> num, den |-> den]

\* the quotient taken whatever the baseline: a baseline of 0 divides by
\* zero (fault injected for C12)
GrowthPercent_Unguarded(first, last) ==
    [num |-> (last.rss_mb - first.rss_mb) * 100, den |-> first.rss_mb]

\* ((last.rss_mb - first.rss_mb) / first.rss_mb * 100) if first.rss_mb > 0 else 0
GrowthPercent(first, last) ==
    IF first.rss_mb > 0
    THEN Ratio((last.rss_mb - first.rss_mb) * 100, first.rss_mb)
    ELSE Ratio(0, 1)

Least(S) == CHOOSE x \in S : \A y \in S : x <= y
Greatest(S) == CHOOSE x \in S : \A y \in S : x >= y

\* the bucket's smallest and largest values taken for its start and end
\* (fault injected for C10)
HourStat_MinMax(hour, bucket) ==
    LET rss == {bucket[i].rss_mb : i \in 1..Len(bucket)}
        heap == {bucket[i].heap_alloc_bytes : i \in 1..Len(bucket)}
        gc == {bucket[i].gc : i \in 1..Len(bucket)}
        go == {bucket[i].goroutines : i \in 1..Len(bucket)}
    IN  [hour |-> hour,
         rss_start_mb |-> Least(rss),
         rss_end_mb |-> Greatest(rss),
         rss_growth_mb |-> Greatest(rss) - Least(rss),
         rss_growth_percent |->
             IF Least(rss) > 0
             THEN [num |-> (Greatest(rss) - Least(rss)) * 100,
                   den |-> Least(rss)]
             ELSE [num |-> 0, den |-> 1],
         heap_growth_mb |->
             [num |-> Greatest(heap) - Least(heap), den |-> 1024 * 1024],
         gc_growth |-> Greatest(gc) - Least(gc),
         goroutines_growth |-> Greatest(go) - Least(go),
         sample_count |-> Len(bucket)]

\* the heap growth taken from the rounded heap_mb field (fault injected for
\* C27)
HourStat_HeapMB(hour, bucket) ==
    LET first == bucket[1]
        last == bucket[Len(bucket)]
    IN  [hour |-> hour,
         rss_start_mb |-> first.rss_mb,
         rss_end_mb |-> last.rss_mb,
         rss_growth_mb |-> last.rss_mb - first.rss_mb,
         rss_growth_percent |-> GrowthPercent(first, last),
         heap_growth_mb |->
             [num |-> (last.heap_mb - first.heap_mb) * 1024 * 1024,
              den |-> 1024 * 1024],
         gc_growth |-> last.gc - first.gc,
         goroutines_growth |-> last.goroutines - first.goroutines,
         sample_count |-> Len(bucket)]

\* the dict appended to hourly_stats for one bucket
HourStat(hour, bucket) ==
    LET first == bucket[1]
        last == bucket[Len(bucket)]
    IN  [hour |-> hour,
         rss_start_mb |-> first.rss_mb,
         rss_end_mb |-> last.rss_mb,
         rss_growth_mb |-> last.rss_mb - first.rss_mb,
         rss_growth_percent |-> GrowthPercent(first, last),
         heap_growth_mb |->
             Ratio(last.heap_alloc_bytes - first.heap_alloc_bytes, BytesPerMB),
         gc_growth |-> last.gc - first.gc,
         goroutines_growth |-> last.goroutines - first.goroutines,
         sample_count |-> Len(bucket)]

\* the threshold off by one (fault injected for C7)
HasGrowth_One(bucket) == Len(bucket) >= 1

\* `if len(hour_samples) >= 2:`
HasGrowth(bucket) == Len(bucket) >= 2

\* the window put at the head of the list (fault injected for C8)
Flush_AtHead(stats, hour, bucket) ==
    IF Len(bucket) >= 2 THEN <<HourStat(hour, bucket)>> \o stats ELSE stats

\* closing a bucket: its window is appended only when it can express growth
Flush(stats, hour, bucket) ==
    IF HasGrowth(bucket) THEN Append(stats, HourStat(hour, bucket)) ELSE stats

\* the block after the loop left out: the last bucket is never closed (fault
\* injected for C24)
FinalFlush_Missing(stats, hour, bucket) == stats

\* the block after the loop: the last bucket is closed by the same statements
\* as a bucket closed inside the loop
FinalFlush(stats, hour, bucket) == Flush(stats, hour, bucket)

\* the sample that changed the key is dropped instead of opening the new
\* bucket (fault injected for C11)
NewBucket_Empty(sample) == <<>>

\* `hour_samples = [sample]`: the bucket a key change opens
NewBucket(sample) == <<sample>>

\* `if sample_hour != current_hour_start:`
KeyChanged(sample, anchor) == TruncHour(sample.time) # anchor

\* the loop of calculate_hourly_growth from the i-th sample on
RECURSIVE ScanFrom(_, _, _, _, _)
ScanFrom(list, i, stats, anchor, bucket) ==
    IF i > Len(list)
    THEN FinalFlush(stats, anchor, bucket)
    ELSE IF KeyChanged(list[i], anchor)
    THEN ScanFrom(list, i + 1, Flush(stats, anchor, bucket),
                  TruncHour(list[i].time), NewBucket(list[i]))
    ELSE ScanFrom(list, i + 1, stats, anchor, Append(bucket, list[i]))

\* calculate_hourly_growth(samples) as a function of its argument
calculate_hourly_growth(list) ==
    IF Len(list) < 2
    THEN <<>>
    ELSE ScanFrom(list, 1, <<>>, TruncHour(list[1].time), <<>>)

-----------------------------------------------------------------------------
(* generate_csv_report, generate_summary_report *)

CsvRow(s) ==
    [time |-> s.time, rss_mb |-> s.rss_mb, rss_bytes |-> s.rss_bytes,
     heap_mb |-> s.heap_mb, heap_alloc_bytes |-> s.heap_alloc_bytes,
     heap_inuse_bytes |-> s.heap_inuse_bytes, gc |-> s.gc,
     goroutines |-> s.goroutines, modules |-> Len(s.modules)]

NormalRate == 20
NormalPercent == 2
SuspiciousRate == 50
SuspiciousPercent == 5

\* `<=` written for `<` (fault injected for C13)
RatioLess_OrEqual(r, k) == r.num <= k * r.den

\* r < k for a ratio r and an integer k
RatioLess(r, k) == r.num < k * r.den

\* the division made for every duration but zero (fault injected for C30)
GrowthPerHour_AnyDuration(first, last) ==
    IF last.time - first.time > 0
    THEN Ratio((last.rss_mb - first.rss_mb) * MinutesPerHour,
               last.time - first.time)
    ELSE IF last.time - first.time < 0
    THEN Ratio((first.rss_mb - last.rss_mb) * MinutesPerHour,
               first.time - last.time)
    ELSE Ratio(0, 1)

\* rss_growth / duration if duration > 0 else 0, duration in hours
GrowthPerHour(first, last) ==
    IF last.time - first.time > 0
    THEN Ratio((last.rss_mb - first.rss_mb) * MinutesPerHour,
               last.time - first.time)
    ELSE Ratio(0, 1)

\* the second tier tested as a band of rates, `20 <= rate < 50` (fault
\* injected for C14)
Classify_RateBand(rate, percent) ==
    IF rate.num < 20 * rate.den /\ percent.num < 2 * percent.den
    THEN "normal"
    ELSE IF /\ rate.num >= 20 * rate.den
            /\ rate.num < 50 * rate.den
            /\ percent.num < 5 * percent.den
    THEN "suspicious"
    ELSE "anomalous"

\* the if / elif / else that sets `status`
Classify(rate, percent) ==
    IF RatioLess(rate, NormalRate) /\ RatioLess(percent, NormalPercent)
    THEN "normal"
    ELSE IF RatioLess(rate, SuspiciousRate)
            /\ RatioLess(percent, SuspiciousPercent)
    THEN "suspicious"
    ELSE "anomalous"

NoSummary ==
    [produced |-> FALSE, warning |-> FALSE, status |-> "none",
     rss_growth_per_hour |-> Ratio(0, 1), rss_growth_percent |-> Ratio(0, 1),
     hourly_rows |-> 0]

\* the test made for an empty list only (fault injected for C16)
InsufficientData_Empty(list) == Len(list) < 1

\* `if len(samples) < 2:`
InsufficientData(list) == Len(list) < 2

\* the largest value of the run taken for its last (fault injected for C17)
SummaryReport_PeakRss(list, stats) ==
    IF Len(list) < 2
    THEN [NoSummary EXCEPT !.warning = TRUE]
    ELSE LET first == list[1]
             peak == CHOOSE x \in {list[i] : i \in 1..Len(list)} :
                         \A i \in 1..Len(list) : x.rss_mb >= list[i].rss_mb
             last == [list[Len(list)] EXCEPT !.rss_mb = peak.rss_mb]
         IN  [produced |-> TRUE, warning |-> FALSE,
              status |-> Classify(GrowthPerHour(first, last),
                                  GrowthPercent(first, last)),
              rss_growth_per_hour |-> GrowthPerHour(first, last),
              rss_growth_percent |-> GrowthPercent(first, last),
              hourly_rows |-> Len(stats)]

\* generate_summary_report(samples, hourly_stats): the warning, or the report
\* with the growth figures, the verdict and one table row for each window
SummaryReport(list, stats) ==
    IF InsufficientData(list)
    THEN [NoSummary EXCEPT !.warning = TRUE]
    ELSE LET first == list[1]
             last == list[Len(list)]
         IN  [produced |-> TRUE, warning |-> FALSE,
              status |-> Classify(GrowthPerHour(first, last),
                                  GrowthPercent(first, last)),
              rss_growth_per_hour |-> GrowthPerHour(first, last),
              rss_growth_percent |-> GrowthPercent(first, last),
              hourly_rows |-> Len(stats)]

-----------------------------------------------------------------------------
(* Inputs *)

SeqsUpTo(S, n) == UNION {[1..k -> S] : k \in 0..n}

Line(marker, json_start, json_end, valid, entry) ==
    [marker |-> marker, json_start |-> json_start, json_end |-> json_end,
     valid |-> valid, entry |-> entry]

Entry(msg, time, ts, rss_mb, rss_bytes, heap_mb, heap_alloc, heap_inuse, gc, goroutines, module_list) ==
    [k \in Keys |->
        CASE k = "msg" -> msg
          [] k = "time" -> time
          [] k = "ts" -> ts
          [] k = "rss_mb" -> rss_mb
          [] k = "rss_bytes" -> rss_bytes
          [] k = "heap_mb" -> heap_mb
          [] k = "heap_alloc_bytes" -> heap_alloc
          [] k = "heap_inuse_bytes" -> heap_inuse
          [] k = "gc" -> gc
          [] k = "goroutines" -> goroutines
          [] OTHER -> module_list]

\* lines json.loads never sees or rejects: no brace, one brace only, the last
\* '}' before the first '{', text between the braces that is not JSON
UndecodableLines ==
    {Line(m, p[1], p[2], FALSE, EmptyEntry) :
        m \in BOOLEAN,
        p \in {<<-1, 0>>, <<0, 0>>, <<-1, 1>>, <<5, 2>>, <<0, 9>>, <<4, 9>>}}

\* objects of every record kind, with each field present or absent and the
\* time given as null, a number, text that is no time, or an ISO-8601 string
DecodedEntries ==
    {Entry(msg, time, ts, a, b, c, d, e, f, g, h) :
        msg \in {Absent, Str("memory_sample"), Str("other")},
        time \in {Absent, Null, Num(5), Str("garbage"), Iso(10), IsoZ(70)},
        ts \in {Absent, Num(3), Iso(50)},
        a \in {Absent, Num(11)}, b \in {Absent, Num(12)},
        c \in {Absent, Num(13)}, d \in {Absent, Num(14)},
        e \in {Absent, Num(15)}, f \in {Absent, Num(16)},
        g \in {Absent, Num(17)}, h \in {Absent, List(2)}}

DecodableLines ==
    {Line(m, 0, 9, TRUE, e) : m \in BOOLEAN, e \in DecodedEntries}

\* a memory_sample record as the node writes it
SampleLine(t, rss, gc) ==
    Line(TRUE, 4, 9, TRUE,
         Entry(Str("memory_sample"), Iso(t), Num(3), Num(rss), Absent, Absent,
               Num(rss * BytesPerMB), Absent, Num(gc), Num(8), List(1)))

\* the lines of the end-to-end runs: unrelated text, another record kind,
\* a truncated record, memory_sample records without a usable time, samples
LogLines ==
    {Line(FALSE, -1, 0, FALSE, EmptyEntry),
     Line(TRUE, 0, 9, TRUE,
          Entry(Str("other"), Iso(10), Absent, Num(1), Absent, Absent, Absent,
                Absent, Absent, Absent, Absent)),
     Line(TRUE, 0, 0, FALSE, EmptyEntry),
     Line(TRUE, 0, 9, TRUE,
          Entry(Str("memory_sample"), Null, Absent, Num(1), Absent, Absent,
                Absent, Absent, Absent, Absent, Absent)),
     SampleLine(0, 100, 1), SampleLine(30, 105, 2), SampleLine(90, 120, 2)}

LogFiles ==
    SeqsUpTo(LogLines, MaxLines)
        \cup {<<l>> : l \in UndecodableLines \cup DecodableLines}

\* sample lists handed to calculate_hourly_growth directly
SampleTimes == {10, 50, 70, 130}

Metrics ==
    {[rss_mb |-> 0, heap_alloc_bytes |-> 0, gc |-> 0, goroutines |-> 2],
     [rss_mb |-> 2, heap_alloc_bytes |-> 2 * BytesPerMB, gc |-> 1,
      goroutines |-> 0],
     [rss_mb |-> 1, heap_alloc_bytes |-> BytesPerMB, gc |-> 3,
      goroutines |-> 1]}

\* a sample with an all-zero baseline is taken at one minute of the first
\* hour only; the other readings are taken at every time
ZeroBaseline(t, m) == m.rss_mb = 0 /\ t # 50

Samples ==
    {[NoSample EXCEPT !.time = x[1], !.rss_mb = x[2].rss_mb,
                      !.heap_alloc_bytes = x[2].heap_alloc_bytes,
                      !.gc = x[2].gc, !.goroutines = x[2].goroutines] :
        x \in {y \in SampleTimes \X Metrics : ~ZeroBaseline(y[1], y[2])}}

SampleLists == SeqsUpTo(Samples, MaxSamples)

\* the first and last samples of the analysed runs: RSS values on both sides
\* of, and on, each threshold of the verdict, and a baseline of 0
RunTimes == {0, 60, 120}

RunRss ==
    {0, 150, 165, 500, 515, 800, 880, 1000, 1015, 1020, 1030, 1050, 2000,
     2020, 2050}

RunSamples ==
    {[NoSample EXCEPT !.time = t, !.rss_mb = m] : t \in RunTimes, m \in RunRss}

\* samples between the first and the last: a peak and a trough
MidSamples ==
    {[NoSample EXCEPT !.time = 30, !.rss_mb = 3000],
     [NoSample EXCEPT !.time = 90, !.rss_mb = 0]}

\* the non-empty lists main hands to the analysis
SummaryLists ==
    {<<f>> : f \in RunSamples}
        \cup {<<f>> \o mid \o <<l>> :
                  f \in RunSamples, l \in RunSamples,
                  mid \in SeqsUpTo(MidSamples, MaxMiddle)}

-----------------------------------------------------------------------------
(* memory_analysis.py: the records of a live snapshot *)

ModuleKeys ==
    {"module", "layer", "objects", "approx_bytes", "cache_items",
     "queue_length"}

\* one entry of the payload's "modules" list
ModuleRecord(name, approx_bytes, objects, queue_length, cache_items) ==
    [k \in ModuleKeys |->
        CASE k = "module" -> Str(name)
          [] k = "layer" -> Absent
          [] k = "objects" -> objects
          [] k = "approx_bytes" -> approx_bytes
          [] k = "cache_items" -> cache_items
          [] k = "queue_length" -> queue_length]

\* the sort key: lambda x: x.get('approx_bytes', 0)
ByteCount(mod) == Get(mod, "approx_bytes", Num(0)).n

\* the record placed before the records of equal size, as when an ascending
\* sort is reversed (fault injected for C18)
InsertRanked_BeforeTies(ranked, mod) ==
    LET c == Cardinality({i \in 1..Len(ranked) :
                             ByteCount(ranked[i]) > ByteCount(mod)})
    IN  SubSeq(ranked, 1, c) \o <<mod>> \o SubSeq(ranked, c + 1, Len(ranked))

\* the place of one more record in a list already ranked: after every record
\* at least as large (the sort is stable, also with reverse=True)
InsertRanked(ranked, mod) ==
    LET c == Cardinality({i \in 1..Len(ranked) :
                             ByteCount(ranked[i]) >= ByteCount(mod)})
    IN  SubSeq(ranked, 1, c) \o <<mod>> \o SubSeq(ranked, c + 1, Len(ranked))

\* sorted(modules, key=..., reverse=True)
RECURSIVE SortedByBytes(_)
SortedByBytes(list) ==
    IF list = <<>>
    THEN <<>>
    ELSE InsertRanked(SortedByBytes(SubSeq(list, 1, Len(list) - 1)),
                      list[Len(list)])

\* a float number of MB, kept exact: whole MB and a part in bytes
\* (0 <= part < BytesPerMB)
MB(whole, part) == [whole |-> whole, part |-> part]

\* the division written `//`: whole MB only (fault injected for C19)
MemoryMB_Floor(approx_bytes) == [whole |-> approx_bytes \div BytesPerMB, part |-> 0]

\* memory_mb = approx_bytes / 1024 / 1024
MemoryMB(approx_bytes) ==
    MB(approx_bytes \div BytesPerMB, approx_bytes % BytesPerMB)

\* total_memory += memory_mb
AddMB(a, b) ==
    MB(a.whole + b.whole + (a.part + b.part) \div BytesPerMB,
       (a.part + b.part) % BytesPerMB)

\* memory_mb > k for an integer k
MBGreater(mb, k) == mb.whole > k \/ (mb.whole = k /\ mb.part > 0)

\* int(total_memory * 1024 * 1024)
TotalBytes(mb) == mb.whole * BytesPerMB + mb.part

KB == 1024

\* 1024 ** k
RECURSIVE Scale(_)
Scale(k) == IF k = 0 THEN 1 ELSE KB * Scale(k - 1)

\* num / den rounded to an integer, a tie going to the even neighbour
RoundHalfEven(num, den) ==
    LET q == num \div den
        r == num % den
    IN  IF 2 * r < den THEN q
        ELSE IF 2 * r > den THEN q + 1
        ELSE IF q % 2 = 0 THEN q ELSE q + 1

\* format_bytes: the unit reached by dividing by 1024 until the value is
\* below 1024, and the value shown with two decimals (in hundredths); byte
\* counts of the model stay below the range of 'GB'
FormatBytes(bytes_value) ==
    LET units == <<"B", "KB", "MB", "GB">>
        k == CHOOSE i \in 0..3 :
                 /\ bytes_value \div Scale(i) < KB
                 /\ \A j \in 0..(i - 1) : bytes_value \div Scale(j) >= KB
    IN  [unit |-> units[k + 1],
         hundredths |->
             (bytes_value \div Scale(k)) * 100
                 + RoundHalfEven((bytes_value % Scale(k)) * 100, Scale(k))]

\* one row of the ranking table
TableRow(mod) ==
    [module |-> Get(mod, "module", Str("unknown")).s,
     layer |-> Get(mod, "layer", Str("unknown")).s,
     objects |-> Get(mod, "objects", Num(0)).n,
     memory |-> FormatBytes(ByteCount(mod)),
     cache_items |-> Get(mod, "cache_items", Num(0)).n,
     queue_length |-> Get(mod, "queue_length", Num(0)).n]

HighMemoryMB == 100
ObjectsLimit == 100000
QueueLimit == 10000
CacheLimit == 100000

\* one line of `issues` or `warnings`
Flag(mod, kind, value) ==
    [module |-> Get(mod, "module", Str("unknown")).s, kind |-> kind,
     value |-> value]

\* what one record appends to `issues`
ModuleIssues(mod) ==
    IF MBGreater(MemoryMB(ByteCount(mod)), HighMemoryMB)
    THEN <<Flag(mod, "memory", ByteCount(mod))>>
    ELSE <<>>

\* the three tests chained with elif: the first that holds hides the others
\* (fault injected for C20)
ModuleWarnings_Elif(mod) ==
    IF Get(mod, "objects", Num(0)).n > 100000
    THEN <<Flag(mod, "objects", Get(mod, "objects", Num(0)).n)>>
    ELSE IF Get(mod, "queue_length", Num(0)).n > 10000
    THEN <<Flag(mod, "queue_length", Get(mod, "queue_length", Num(0)).n)>>
    ELSE IF Get(mod, "cache_items", Num(0)).n > 100000
    THEN <<Flag(mod, "cache_items", Get(mod, "cache_items", Num(0)).n)>>
    ELSE <<>>

\* what one record appends to `warnings`: objects, queue, cache, in this order
ModuleWarnings(mod) ==
    LET objects == Get(mod, "objects", Num(0)).n
        queue_length == Get(mod, "queue_length", Num(0)).n
        cache_items == Get(mod, "cache_items", Num(0)).n
    IN  (IF objects > ObjectsLimit
         THEN <<Flag(mod, "objects", objects)>> ELSE <<>>)
        \o (IF queue_length > QueueLimit
            THEN <<Flag(mod, "queue_length", queue_length)>> ELSE <<>>)
        \o (IF cache_items > CacheLimit
            THEN <<Flag(mod, "cache_items", cache_items)>> ELSE <<>>)

NoTotal == [printed |-> FALSE, bytes |-> 0, text |-> FormatBytes(0)]

\* module records: sizes absent, zero and on both sides of the mean, under
\* two names; and every combination of the four counters at, and one above,
\* their thresholds
ModuleRecords ==
    {ModuleRecord(name, b, Absent, Absent, Absent) :
        name \in {"a", "b"},
        b \in {Absent, Num(0), Num(50000000), Num(150000000)}}
    \cup
    {ModuleRecord("c", Num(HighMemoryMB * BytesPerMB + b), Num(ObjectsLimit + o),
                  Num(QueueLimit + q), Num(CacheLimit + c)) :
        b \in {0, 1}, o \in {0, 1}, q \in {0, 1}, c \in {0, 1}}

Snapshots == SeqsUpTo(ModuleRecords, MaxModules)

\* what the request to the endpoint gives: no connection, a body that is no
\* JSON, a body that is no UTF-8 text, JSON that is no object, an object
\* without "modules", an object with a list of records
Responses ==
    {[kind |-> k, object |-> FALSE, has_modules |-> FALSE, modules |-> <<>>] :
        k \in {"URLError", "JSONDecodeError", "UnicodeDecodeError", "ok"}}
    \cup {[kind |-> "ok", object |-> TRUE, has_modules |-> FALSE,
            modules |-> <<>>]}
    \cup {[kind |-> "ok", object |-> TRUE, has_modules |-> TRUE,
            modules |-> m] : m \in Snapshots}

\* a failed request is made again (fault injected for C22)
AfterFetch_Retry(kind) ==
    IF kind = "ok" THEN "analyze_memory" ELSE "fetch_memory_data"

\* where main is after fetch_memory_data: the data are returned, or
\* sys.exit(1) in the two except clauses, or an exception neither catches
AfterFetch(kind) ==
    IF kind = "ok" THEN "analyze_memory"
    ELSE IF kind \in {"URLError", "JSONDecodeError"} THEN "exit"
    ELSE "crashed"

\* the test left out: an empty list is ranked like any other (fault injected
\* for C21)
NoModules_Never(found) == FALSE

\* `if not modules:`
NoModules(found) == found = <<>>

\* the variables of memory_analysis.py before main runs a step
LiveStart ==
    /\ requests = 0
    /\ live_status = -1
    /\ modules = <<>>
    /\ sorted_modules = <<>>
    /\ cursor = 0
    /\ table = <<>>
    /\ total_memory = MemoryMB(0)
    /\ total_row = NoTotal
    /\ issues = <<>>
    /\ warnings = <<>>
    /\ result = ""

\* memory_analysis.py is not the program being run
LiveIdle ==
    /\ mpc = "idle"
    /\ response = [kind |-> "none", object |-> FALSE, has_modules |-> FALSE,
                   modules |-> <<>>]
    /\ LiveStart

\* analyze_memory_from_logs.py is not the program being run
LogIdle ==
    /\ fileExists = FALSE
    /\ lines = <<>>
    /\ pc = "idle"
    /\ lineNo = 0
    /\ parsed = <<>>
    /\ samples = <<>>
    /\ exc = ""
    /\ exit_status = -1
    /\ csv_rows = <<>>
    /\ csv_written = FALSE
    /\ hourly_called = FALSE
    /\ hourly_stats = <<>>
    /\ current_hour_start = 0
    /\ hour_samples = <<>>
    /\ idx = 0
    /\ summary = NoSummary

-----------------------------------------------------------------------------
(* main() of analyze_memory_from_logs.py *)

Init ==
    /\ fileExists \in BOOLEAN
    /\ lines \in LogFiles
    /\ ~fileExists => lines = <<>>
    /\ pc = "parse_log_file"
    /\ lineNo = 0
    /\ parsed = <<>>
    /\ samples = <<>>
    /\ exc = ""
    /\ exit_status = -1
    /\ csv_rows = <<>>
    /\ csv_written = FALSE
    /\ hourly_called = FALSE
    /\ hourly_stats = <<>>
    /\ current_hour_start = 0
    /\ hour_samples = <<>>
    /\ idx = 0
    /\ summary = NoSummary
    /\ LiveIdle

\* parse_log_file: a missing file is reported and gives the empty list
OpenLog ==
    /\ pc = "parse_log_file"
    /\ pc' = IF fileExists THEN "scan" ELSE "main_check"
    /\ UNCHANGED <<fileExists, lines, lineNo, parsed, samples, exc,
                   exit_status, csv_rows, csv_written, hourly_called,
                   hourly_stats, current_hour_start, hour_samples, idx,
                   summary>>
    /\ UNCHANGED live_vars

\* one iteration of `for line_num, line in enumerate(f, 1)`; an exception
\* parse_log_line lets through is caught nowhere and ends the process
ScanLine ==
    /\ pc = "scan"
    /\ lineNo < Len(lines)
    /\ LET r == parse_log_line(lines[lineNo + 1])
       IN  /\ lineNo' = lineNo + 1
           /\ parsed' = Append(parsed, r)
           /\ samples' = Collect(samples, r)
           /\ pc' = IF r.kind = "raise" THEN "crashed" ELSE "scan"
           /\ exc' = IF r.kind = "raise" THEN r.exc ELSE exc
           /\ exit_status' = IF r.kind = "raise" THEN 1 ELSE exit_status
    /\ UNCHANGED <<fileExists, lines, csv_rows, csv_written, hourly_called,
                   hourly_stats, current_hour_start, hour_samples, idx,
                   summary>>
    /\ UNCHANGED live_vars

\* end of file: parse_log_file returns samples
ScanEnd ==
    /\ pc = "scan"
    /\ lineNo = Len(lines)
    /\ pc' = "main_check"
    /\ UNCHANGED <<fileExists, lines, lineNo, parsed, samples, exc,
                   exit_status, csv_rows, csv_written, hourly_called,
                   hourly_stats, current_hour_start, hour_samples, idx,
                   summary>>
    /\ UNCHANGED live_vars

\* the emptiness test left out (fault injected for C5)
NoData_Unchecked(list) == FALSE

\* `if not samples:` ... sys.exit(1)
NoData(list) == list = <<>>

MainCheck ==
    /\ pc = "main_check"
    /\ pc' = IF NoData(samples) THEN "exit" ELSE "generate_csv_report"
    /\ exit_status' = IF NoData(samples) THEN 1 ELSE exit_status
    /\ UNCHANGED <<fileExists, lines, lineNo, parsed, samples, exc, csv_rows,
                   csv_written, hourly_called, hourly_stats,
                   current_hour_start, hour_samples, idx, summary>>
    /\ UNCHANGED live_vars

GenerateCsvReport ==
    /\ pc = "generate_csv_report"
    /\ csv_rows' = [i \in 1..Len(samples) |-> CsvRow(samples[i])]
    /\ csv_written' = TRUE
    /\ pc' = "calculate_hourly_growth"
    /\ UNCHANGED <<fileExists, lines, lineNo, parsed, samples, exc,
                   exit_status, hourly_called, hourly_stats,
                   current_hour_start, hour_samples, idx, summary>>
    /\ UNCHANGED live_vars

\* the place of one more sample in a list ordered by time
InsertByTime(sorted, sample) ==
    LET c == Cardinality({i \in 1..Len(sorted) :
                             sorted[i].time <= sample.time})
    IN  SubSeq(sorted, 1, c) \o <<sample>> \o SubSeq(sorted, c + 1, Len(sorted))

RECURSIVE SortedByTime(_)
SortedByTime(list) ==
    IF list = <<>>
    THEN <<>>
    ELSE InsertByTime(SortedByTime(SubSeq(list, 1, Len(list) - 1)),
                      list[Len(list)])

\* the caller's list is put in time order in place, samples.sort(...), before
\* it is scanned (fault injected for C26)
HourlyEnter_SortsInPlace ==
    /\ pc = "calculate_hourly_growth"
    /\ samples' = SortedByTime(samples)
    /\ hourly_called' = TRUE
    /\ hourly_stats' = <<>>
    /\ hour_samples' = <<>>
    /\ idx' = 0
    /\ IF Len(samples) < 2
       THEN /\ pc' = "generate_summary_report"
            /\ UNCHANGED current_hour_start
       ELSE /\ pc' = "hourly_loop"
            /\ current_hour_start' = TruncHour(SortedByTime(samples)[1].time)
    /\ UNCHANGED <<fileExists, lines, lineNo, parsed, exc, exit_status,
                   csv_rows, csv_written, summary>>
    /\ UNCHANGED live_vars

\* entry of calculate_hourly_growth: fewer than 2 samples return [] at once
HourlyEnter ==
    /\ pc = "calculate_hourly_growth"
    /\ hourly_called' = TRUE
    /\ hourly_stats' = <<>>
    /\ hour_samples' = <<>>
    /\ idx' = 0
    /\ IF Len(samples) < 2
       THEN /\ pc' = "generate_summary_report"
            /\ UNCHANGED current_hour_start
       ELSE /\ pc' = "hourly_loop"
            /\ current_hour_start' = TruncHour(samples[1].time)
    /\ UNCHANGED <<fileExists, lines, lineNo, parsed, samples, exc,
                   exit_status, csv_rows, csv_written, summary>>
    /\ UNCHANGED live_vars

\* one iteration of `for sample in samples`
HourlyStep ==
    /\ pc = "hourly_loop"
    /\ idx < Len(samples)
    /\ LET sample == samples[idx + 1]
       IN  IF KeyChanged(sample, current_hour_start)
           THEN /\ hourly_stats' =
                       Flush(hourly_stats, current_hour_start, hour_samples)
                /\ current_hour_start' = TruncHour(sample.time)
                /\ hour_samples' = NewBucket(sample)
           ELSE /\ hour_samples' = Append(hour_samples, sample)
                /\ UNCHANGED <<hourly_stats, current_hour_start>>
    /\ idx' = idx + 1
    /\ UNCHANGED <<fileExists, lines, pc, lineNo, parsed, samples, exc,
                   exit_status, csv_rows, csv_written, hourly_called, summary>>
    /\ UNCHANGED live_vars

\* after the loop: the last bucket, then `return hourly_stats`
HourlyReturn ==
    /\ pc = "hourly_loop"
    /\ idx = Len(samples)
    /\ hourly_stats' =
           FinalFlush(hourly_stats, current_hour_start, hour_samples)
    /\ pc' = "generate_summary_report"
    /\ UNCHANGED <<fileExists, lines, lineNo, parsed, samples, exc,
                   exit_status, csv_rows, csv_written, hourly_called,
                   current_hour_start, hour_samples, idx, summary>>
    /\ UNCHANGED live_vars

\* generate_summary_report, then main returns (the plot changes no state)
GenerateSummaryReport ==
    /\ pc = "generate_summary_report"
    /\ summary' = SummaryReport(samples, hourly_stats)
    /\ pc' = "done"
    /\ exit_status' = 0
    /\ UNCHANGED <<fileExists, lines, lineNo, parsed, samples, exc, csv_rows,
                   csv_written, hourly_called, hourly_stats,
                   current_hour_start, hour_samples, idx>>
    /\ UNCHANGED live_vars

Next ==
    \/ OpenLog
    \/ ScanLine
    \/ ScanEnd
    \/ MainCheck
    \/ GenerateCsvReport
    \/ HourlyEnter
    \/ HourlyStep
    \/ HourlyReturn
    \/ GenerateSummaryReport

Spec == Init /\ [][Next]_vars

-----------------------------------------------------------------------------
(* calculate_hourly_growth applied to any list of samples *)

InitHourly ==
    /\ fileExists = TRUE
    /\ lines = <<>>
    /\ pc = "calculate_hourly_growth"
    /\ lineNo = 0
    /\ parsed = <<>>
    /\ samples \in SampleLists
    /\ exc = ""
    /\ exit_status = -1
    /\ csv_rows = <<>>
    /\ csv_written = FALSE
    /\ hourly_called = FALSE
    /\ hourly_stats = <<>>
    /\ current_hour_start = 0
    /\ hour_samples = <<>>
    /\ idx = 0
    /\ summary = NoSummary
    /\ LiveIdle

NextHourly ==
    \/ HourlyEnter
    \/ HourlyStep
    \/ HourlyReturn

SpecHourly == InitHourly /\ [][NextHourly]_vars

-----------------------------------------------------------------------------
(* the analysis of main once the samples are read: calculate_hourly_growth, *)
(* then generate_summary_report on the same list                            *)

InitAnalysis ==
    /\ fileExists = TRUE
    /\ lines = <<>>
    /\ pc = "calculate_hourly_growth"
    /\ lineNo = 0
    /\ parsed = <<>>
    /\ samples \in SummaryLists
    /\ exc = ""
    /\ exit_status = -1
    /\ csv_rows = <<>>
    /\ csv_written = FALSE
    /\ hourly_called = FALSE
    /\ hourly_stats = <<>>
    /\ current_hour_start = 0
    /\ hour_samples = <<>>
    /\ idx = 0
    /\ summary = NoSummary
    /\ LiveIdle

NextAnalysis ==
    \/ HourlyEnter
    \/ HourlyStep
    \/ HourlyReturn
    \/ GenerateSummaryReport

SpecAnalysis == InitAnalysis /\ [][NextAnalysis]_vars

-----------------------------------------------------------------------------
(* main() of memory_analysis.py *)

InitLive ==
    /\ LogIdle
    /\ mpc = "fetch_memory_data"
    /\ response \in Responses
    /\ LiveStart

\* fetch_memory_data: one urlopen; URLError and JSONDecodeError end the
\* process with sys.exit(1), any other exception with a traceback
FetchMemoryData ==
    /\ mpc = "fetch_memory_data"
    /\ requests' = requests + 1
    /\ mpc' = AfterFetch(response.kind)
    /\ IF response.kind = "ok"
       THEN UNCHANGED live_status
       ELSE live_status' = 1
    /\ UNCHANGED <<response, modules, sorted_modules, cursor, table,
                   total_memory, total_row, issues, warnings, result>>
    /\ UNCHANGED log_vars

\* analyze_memory up to the sort: data that are no object have no .get and
\* end the run with AttributeError; without records it reports that no
\* module data was found and returns, and main ends
AnalyzeEnter ==
    /\ mpc = "analyze_memory"
    /\ LET found == IF response.has_modules THEN response.modules ELSE <<>>
       IN  IF ~response.object
           THEN /\ mpc' = "crashed"
                /\ live_status' = 1
                /\ UNCHANGED <<modules, sorted_modules, result>>
           ELSE /\ modules' = found
                /\ IF NoModules(found)
                   THEN /\ result' = "no_module_data"
                        /\ mpc' = "done"
                        /\ live_status' = 0
                        /\ UNCHANGED sorted_modules
                   ELSE /\ sorted_modules' = SortedByBytes(found)
                        /\ mpc' = "table"
                        /\ UNCHANGED <<result, live_status>>
    /\ UNCHANGED <<response, requests, cursor, table, total_memory,
                   total_row, issues, warnings>>
    /\ UNCHANGED log_vars

\* one iteration of the first `for mod in sorted_modules`
PrintRow ==
    /\ mpc = "table"
    /\ cursor < Len(sorted_modules)
    /\ LET mod == sorted_modules[cursor + 1]
       IN  /\ table' = Append(table, TableRow(mod))
           /\ total_memory' = AddMB(total_memory, MemoryMB(ByteCount(mod)))
    /\ cursor' = cursor + 1
    /\ UNCHANGED <<response, requests, mpc, live_status, modules,
                   sorted_modules, total_row, issues, warnings, result>>
    /\ UNCHANGED log_vars

\* the total under the table; issues = [], warnings = []
PrintTotal ==
    /\ mpc = "table"
    /\ cursor = Len(sorted_modules)
    /\ total_row' = [printed |-> TRUE, bytes |-> TotalBytes(total_memory),
                     text |-> FormatBytes(TotalBytes(total_memory))]
    /\ issues' = <<>>
    /\ warnings' = <<>>
    /\ cursor' = 0
    /\ mpc' = "flags"
    /\ UNCHANGED <<response, requests, live_status, modules, sorted_modules,
                   table, total_memory, result>>
    /\ UNCHANGED log_vars

\* one iteration of the second `for mod in sorted_modules`
FlagModule ==
    /\ mpc = "flags"
    /\ cursor < Len(sorted_modules)
    /\ LET mod == sorted_modules[cursor + 1]
       IN  /\ issues' = issues \o ModuleIssues(mod)
           /\ warnings' = warnings \o ModuleWarnings(mod)
    /\ cursor' = cursor + 1
    /\ UNCHANGED <<response, requests, mpc, live_status, modules,
                   sorted_modules, table, total_memory, total_row, result>>
    /\ UNCHANGED log_vars

\* the issues and warnings are printed, or that no problem was found; the
\* advice follows and main returns
PrintFindings ==
    /\ mpc = "flags"
    /\ cursor = Len(sorted_modules)
    /\ result' = IF issues = <<>> /\ warnings = <<>>
                 THEN "no_problems" ELSE "problems"
    /\ mpc' = "done"
    /\ live_status' = 0
    /\ UNCHANGED <<response, requests, modules, sorted_modules, cursor,
                   table, total_memory, total_row, issues, warnings>>
    /\ UNCHANGED log_vars

NextLive ==
    \/ FetchMemoryData
    \/ AnalyzeEnter
    \/ PrintRow
    \/ PrintTotal
    \/ FlagModule
    \/ PrintFindings

SpecLive == InitLive /\ [][NextLive]_vars

-----------------------------------------------------------------------------
(* Properties of the log scan *)

\* text between the first '{' and the last '}' that decodes to an object
Decodes(l) == l.json_start >= 0 /\ l.json_start < l.json_end /\ l.valid

\* parse_log_file has returned its list to main
ScanReturned ==
    pc \notin {"parse_log_file", "scan", "crashed"}

\* C1: for every input line parse_log_line ends with a sample or with 'no
\* sample' and never raises, so that parse_log_file visits every line of the
\* file whatever bad line came before.
C1_ParseNeverRaises ==
    /\ \A i \in 1..Len(parsed) : parsed[i].kind \in {"sample", "none"}
    /\ (fileExists /\ pc \notin {"parse_log_file", "scan"})
           => lineNo = Len(lines)

\* C2: a sample is returned only for a line that contains the marker and
\* whose decoded msg is the literal memory_sample; a line without the marker
\* and a marker-bearing line with another msg both give 'no sample'.
C2_OnlyMarkedMemorySample ==
    \A i \in 1..Len(parsed) :
        LET l == lines[i]
            r == parsed[i]
        IN  /\ r.kind = "sample" =>
                   /\ l.marker
                   /\ Decodes(l)
                   /\ l.entry["msg"].t = "str"
                   /\ l.entry["msg"].s = "memory_sample"
            /\ ~l.marker => r.kind = "none"
            /\ (l.marker /\ Decodes(l)
                    /\ ~(l.entry["msg"].t = "str"
                         /\ l.entry["msg"].s = "memory_sample"))
                   => r.kind = "none"

\* one scan met a memory_sample record, a marker-bearing record of another
\* kind and a line without the marker
C2_Witness ==
    \E i, j, k \in 1..Len(parsed) :
        /\ parsed[i].kind = "sample"
        /\ lines[j].marker /\ Decodes(lines[j])
        /\ lines[j].entry["msg"] = Str("other")
        /\ parsed[j].kind = "none"
        /\ ~lines[k].marker /\ parsed[k].kind = "none"

\* the time string a record carries: its "time", else its "ts"
TimeText(e) == IF e["time"].t = "absent" THEN e["ts"] ELSE e["time"]

ParseableTime(e) ==
    TimeText(e).t = "str" /\ TimeText(e).s \in {"iso", "isoZ"}

NumberOr0(e, k) == IF e[k].t = "absent" THEN 0 ELSE e[k].n

\* C3: a marker-bearing, well-formed memory_sample record with a parseable
\* time gives a sample whose fields are the payload's, 0 for each absent
\* numeric field and the empty sequence for absent modules.
C3_FieldsOfPayload ==
    \A i \in 1..Len(parsed) :
        LET e == lines[i].entry
            r == parsed[i]
        IN  (/\ lines[i].marker
             /\ Decodes(lines[i])
             /\ e["msg"] = Str("memory_sample")
             /\ ParseableTime(e))
            => /\ r.kind = "sample"
               /\ r.sample.rss_mb = NumberOr0(e, "rss_mb")
               /\ r.sample.rss_bytes = NumberOr0(e, "rss_bytes")
               /\ r.sample.heap_mb = NumberOr0(e, "heap_mb")
               /\ r.sample.heap_alloc_bytes = NumberOr0(e, "heap_alloc_bytes")
               /\ r.sample.heap_inuse_bytes = NumberOr0(e, "heap_inuse_bytes")
               /\ r.sample.gc = NumberOr0(e, "gc")
               /\ r.sample.goroutines = NumberOr0(e, "goroutines")
               /\ Len(r.sample.modules) = NumberOr0(e, "modules")

\* a record with some fields present and others (modules too) absent was parsed
C3_Witness ==
    \E i \in 1..Len(parsed) :
        /\ parsed[i].kind = "sample"
        /\ lines[i].entry["rss_mb"].t = "num"
        /\ lines[i].entry["heap_alloc_bytes"].t = "num"
        /\ lines[i].entry["heap_inuse_bytes"].t = "absent"
        /\ lines[i].entry["gc"].t = "absent"
        /\ lines[i].entry["modules"].t = "absent"
        /\ parsed[i].sample.rss_mb > 0
        /\ parsed[i].sample.gc = 0
        /\ parsed[i].sample.modules = <<>>

\* the samples of the lines of ls that yield one, in the order of ls
RECURSIVE SamplesOf(_)
SamplesOf(ls) ==
    IF ls = <<>>
    THEN <<>>
    ELSE LET r == parse_log_line(Head(ls))
         IN  (IF r.kind = "sample" THEN <<r.sample>> ELSE <<>>)
                 \o SamplesOf(Tail(ls))

YieldingLines(n) ==
    {i \in 1..n : parse_log_line(lines[i]).kind = "sample"}

\* C4: the list parse_log_file builds is the subsequence of the lines that
\* yield a sample, in file order, nothing reordered, merged, duplicated or
\* dropped; its length is the number of lines that yield a sample.
C4_SamplesInFileOrder ==
    /\ pc \in {"scan", "crashed"} =>
           /\ samples = SamplesOf(SubSeq(lines, 1, lineNo))
           /\ Len(samples) = Cardinality(YieldingLines(lineNo))
    /\ (ScanReturned /\ fileExists) =>
           /\ samples = SamplesOf(lines)
           /\ Len(samples) = Cardinality(YieldingLines(Len(lines)))

\* a returned list of two equal samples and a line between them that gave none
C4_Witness ==
    /\ pc = "main_check"
    /\ Len(lines) = 3
    /\ Len(samples) = 2
    /\ samples[1] = samples[2]
    /\ parsed[2].kind = "none"

LaterStages ==
    {"generate_csv_report", "calculate_hourly_growth", "hourly_loop",
     "generate_summary_report", "done"}

\* C5: with zero valid samples (file missing, or no line yields one) main
\* ends with exit status 1 before any later stage: no CSV report, no call of
\* calculate_hourly_growth, no summary and no verdict.
C5_NoDataExits ==
    /\ (pc \notin {"parse_log_file", "scan"} /\ samples = <<>>) =>
           /\ pc \in {"main_check", "exit", "crashed"}
           /\ ~csv_written
           /\ ~hourly_called
           /\ summary = NoSummary
    /\ pc = "exit" => (exit_status = 1 /\ samples = <<>>)
    /\ pc \in LaterStages => samples # <<>>

\* the file has lines, none yields a sample, and main has exited
C5_Witness ==
    /\ pc = "exit"
    /\ exit_status = 1
    /\ fileExists
    /\ Len(lines) >= 2
    /\ lineNo = Len(lines)

-----------------------------------------------------------------------------
(* Properties of calculate_hourly_growth *)

\* calculate_hourly_growth has returned hourly_stats
HourlyReturned ==
    hourly_called /\ pc \in {"generate_summary_report", "done"}

\* the calendar hour a timestamp falls in
CalendarHour(t) == t \div MinutesPerHour

Ascending(list) ==
    \A i \in 1..(Len(list) - 1) : list[i].time <= list[i + 1].time

\* length of the longest prefix of a non-empty list within one calendar hour
RunLength(list) ==
    CHOOSE n \in 1..Len(list) :
        /\ \A i \in 1..n :
               CalendarHour(list[i].time) = CalendarHour(list[1].time)
        /\ n < Len(list) =>
               CalendarHour(list[n + 1].time) # CalendarHour(list[1].time)

\* the maximal runs of consecutive samples of one calendar hour, in order
RECURSIVE RunsOf(_)
RunsOf(list) ==
    IF list = <<>>
    THEN <<>>
    ELSE <<SubSeq(list, 1, RunLength(list))>>
             \o RunsOf(SubSeq(list, RunLength(list) + 1, Len(list)))

AtLeastTwo(run) == Len(run) >= 2

GrowthRuns(list) == SelectSeq(RunsOf(list), AtLeastTwo)

\* C6: samples that all fall inside one calendar hour give at most one
\* window, and fewer than 2 samples (0 or 1) give the empty list.
C6_OneHourOneWindow ==
    HourlyReturned =>
        /\ (\A i, j \in 1..Len(samples) :
                CalendarHour(samples[i].time) = CalendarHour(samples[j].time))
               => Len(hourly_stats) <= 1
        /\ Len(samples) < 2 => hourly_stats = <<>>

\* four samples at two different minutes of one hour gave one window
C6_Witness ==
    /\ HourlyReturned
    /\ Len(samples) = 4
    /\ \A i \in 1..4 : CalendarHour(samples[i].time) = 0
    /\ samples[2].time # samples[3].time
    /\ Len(hourly_stats) = 1
    /\ hourly_stats[1].sample_count = 4

\* C7: the windows are, one for one and in order, the maximal runs of
\* consecutive same-hour samples that hold at least 2 samples; a run of one
\* sample gives no window; sample_count is the length of the run.
C7_WindowsAreGrowthRuns ==
    HourlyReturned =>
        /\ Len(hourly_stats) = Len(GrowthRuns(samples))
        /\ \A k \in 1..Len(hourly_stats) :
               /\ hourly_stats[k].sample_count >= 2
               /\ k <= Len(GrowthRuns(samples)) =>
                      /\ hourly_stats[k].sample_count
                             = Len(GrowthRuns(samples)[k])
                      /\ hourly_stats[k].hour
                             = CalendarHour(GrowthRuns(samples)[k][1].time)
                                   * MinutesPerHour

\* a run of one sample between two runs of the same hour: one window only
C7_Witness ==
    /\ HourlyReturned
    /\ Len(RunsOf(samples)) = 3
    /\ Len(RunsOf(samples)[1]) = 1
    /\ Len(RunsOf(samples)[2]) = 2
    /\ Len(RunsOf(samples)[3]) = 1
    /\ Len(hourly_stats) = 1
    /\ hourly_stats[1].sample_count = 2

C10_FirstAndLastOfBucket ==
    HourlyReturned =>
        \A k \in 1..Len(hourly_stats) :
            k <= Len(GrowthRuns(samples)) =>
                LET run == GrowthRuns(samples)[k]
                    w == hourly_stats[k]
                IN  /\ w.rss_start_mb = run[1].rss_mb
                    /\ w.rss_end_mb = run[Len(run)].rss_mb
                    /\ w.rss_growth_mb = w.rss_end_mb - w.rss_start_mb
                    /\ w.gc_growth = run[Len(run)].gc - run[1].gc
                    /\ w.goroutines_growth
                           = run[Len(run)].goroutines - run[1].goroutines

\* a bucket whose memory rose and then fell below its first value: the
\* growth is negative although the bucket's range is positive
C10_Witness ==
    /\ HourlyReturned
    /\ Len(samples) = 3
    /\ Len(hourly_stats) = 1
    /\ hourly_stats[1].sample_count = 3
    /\ samples[2].rss_mb > samples[1].rss_mb
    /\ samples[3].rss_mb < samples[1].rss_mb
    /\ hourly_stats[1].rss_growth_mb < 0

-----------------------------------------------------------------------------
(* Properties of the bucket boundary *)

\* one iteration of the loop of calculate_hourly_growth has run
LoopStepped == pc = "hourly_loop" /\ idx < Len(samples) /\ idx' = idx + 1

\* the iteration's sample falls in another hour than the open bucket's anchor
OtherHour(s) == CalendarHour(s.time) * MinutesPerHour # current_hour_start

\* what one iteration does with the open bucket and the list of windows
BucketStep ==
    LoopStepped =>
        LET s == samples[idx + 1]
            n == Len(hour_samples)
        IN  IF OtherHour(s)
            THEN /\ hour_samples' = <<s>>
                 /\ current_hour_start' = CalendarHour(s.time) * MinutesPerHour
                 /\ IF n >= 2
                    THEN /\ Len(hourly_stats') = Len(hourly_stats) + 1
                         /\ SubSeq(hourly_stats', 1, Len(hourly_stats))
                                = hourly_stats
                         /\ LET w == hourly_stats'[Len(hourly_stats')]
                            IN  /\ w.hour = current_hour_start
                                /\ w.sample_count = n
                                /\ w.rss_start_mb = hour_samples[1].rss_mb
                                /\ w.rss_end_mb = hour_samples[n].rss_mb
                    ELSE hourly_stats' = hourly_stats
            ELSE /\ hour_samples' = Append(hour_samples, s)
                 /\ hourly_stats' = hourly_stats
                 /\ current_hour_start' = current_hour_start

\* the samples (t0, 100), (t0 + 30 min, 105), (t0 + 90 min, 120), t0 at the
\* top of an hour
ScenarioA ==
    /\ Len(samples) = 3
    /\ samples[1].time % MinutesPerHour = 0
    /\ samples[2].time = samples[1].time + 30
    /\ samples[3].time = samples[1].time + 90
    /\ <<samples[1].rss_mb, samples[2].rss_mb, samples[3].rss_mb>>
           = <<100, 105, 120>>

\* C11: a bucket is closed exactly when a sample's truncated hour differs
\* from the anchor; that sample becomes the first of the new bucket and
\* counts neither in the closed bucket's rss_end_mb nor in its sample_count;
\* otherwise the sample joins the open bucket.  The samples (t0, 100),
\* (t0 + 30 min, 105), (t0 + 90 min, 120) give exactly one window, start 100,
\* end 105, growth 5, sample_count 2, and none for the third sample's hour.
C11_BucketClosedOnKeyChange ==
    /\ [][BucketStep]_vars
    /\ [](HourlyReturned /\ ScenarioA =>
             /\ Len(hourly_stats) = 1
             /\ hourly_stats[1].hour = samples[1].time
             /\ hourly_stats[1].rss_start_mb = 100
             /\ hourly_stats[1].rss_end_mb = 105
             /\ hourly_stats[1].rss_growth_mb = 5
             /\ hourly_stats[1].sample_count = 2)

\* the run over the three samples of the scenario has finished: the third
\* sample closed the first bucket and sits alone in the open one
C11_Witness ==
    /\ pc = "done"
    /\ ScenarioA
    /\ Len(hourly_stats) = 1
    /\ hour_samples = <<samples[3]>>
    /\ current_hour_start = samples[1].time + MinutesPerHour

-----------------------------------------------------------------------------
(* Properties of the growth figures and of the verdict *)

\* generate_summary_report has written a report for the run
Reported == pc = "done" /\ summary.produced

\* the ratio p is the percentage by which `finish` exceeds `start`: 0 for a
\* baseline of 0, (finish - start) / start * 100 otherwise; a denominator
\* that is not positive is a division that did not complete
IsPercentOf(p, start, finish) ==
    /\ p.den > 0
    /\ IF start = 0
       THEN p.num = 0
       ELSE p.num * start = (finish - start) * 100 * p.den

\* C12: a baseline of 0 never causes a division fault: when the first RSS
\* value of a window, or of the whole run, is 0, rss_growth_percent is
\* exactly 0 whatever the end value and the computation completes; otherwise
\* rss_growth_percent is growth / start * 100.
C12_ZeroBaselineIsZeroPercent ==
    /\ HourlyReturned =>
           \A k \in 1..Len(hourly_stats) :
               k <= Len(GrowthRuns(samples)) =>
                   LET run == GrowthRuns(samples)[k]
                   IN  IsPercentOf(hourly_stats[k].rss_growth_percent,
                                   run[1].rss_mb, run[Len(run)].rss_mb)
    /\ (pc = "done" /\ Len(samples) >= 2) =>
           /\ summary.produced
           /\ IsPercentOf(summary.rss_growth_percent,
                          samples[1].rss_mb, samples[Len(samples)].rss_mb)

\* a run and its only window both start at 0 MB and end higher, and both
\* percentages are 0
C12_Witness ==
    /\ Reported
    /\ samples[1].rss_mb = 0
    /\ samples[Len(samples)].rss_mb > 0
    /\ summary.rss_growth_percent.num = 0
    /\ Len(hourly_stats) = 1
    /\ hourly_stats[1].rss_start_mb = 0
    /\ hourly_stats[1].rss_growth_mb > 0
    /\ hourly_stats[1].rss_growth_percent.num = 0

\* the ratio r equals the decimal number tenths / 10
IsTenths(r, tenths) == r.num * 10 = tenths * r.den

\* the run's pair (rss_growth_per_hour, rss_growth_percent) is (rate, percent),
\* both given in tenths
PairIs(rate, percent) ==
    /\ IsTenths(summary.rss_growth_per_hour, rate)
    /\ IsTenths(summary.rss_growth_percent, percent)

\* C13: the verdict is Normal iff rate < 20 and percent < 2, Suspicious iff
\* not Normal and rate < 50 and percent < 5, Anomalous in every other case;
\* exactly one verdict is assigned and the bounds are strict.  (15, 1.5) is
\* Normal, (30, 3) Suspicious, (80, 10) Anomalous, (15, 3) Suspicious,
\* (15, 10) Anomalous; a rate of exactly 20 is not Normal and a rate of
\* exactly 50 is Anomalous.
C13_VerdictTable ==
    Reported =>
        LET r == summary.rss_growth_per_hour
            p == summary.rss_growth_percent
            normal == r.num < 20 * r.den /\ p.num < 2 * p.den
            suspicious ==
                ~normal /\ r.num < 50 * r.den /\ p.num < 5 * p.den
        IN  /\ r.den > 0 /\ p.den > 0
            /\ summary.status \in {"normal", "suspicious", "anomalous"}
            /\ summary.status = "normal" <=> normal
            /\ summary.status = "suspicious" <=> suspicious
            /\ summary.status = "anomalous" <=> ~normal /\ ~suspicious
            /\ PairIs(150, 15) => summary.status = "normal"
            /\ PairIs(300, 30) => summary.status = "suspicious"
            /\ PairIs(800, 100) => summary.status = "anomalous"
            /\ PairIs(150, 30) => summary.status = "suspicious"
            /\ PairIs(150, 100) => summary.status = "anomalous"
            /\ IsTenths(r, 200) => summary.status # "normal"
            /\ IsTenths(r, 500) => summary.status = "anomalous"

\* a run whose rate is exactly 20 MB/h with a growth of 1% is Suspicious
C13_Witness ==
    /\ Reported
    /\ PairIs(200, 10)
    /\ summary.status = "suspicious"

\* the order of the verdicts: Normal < Suspicious < Anomalous
Tier(status) ==
    CASE status = "normal" -> 1
      [] status = "suspicious" -> 2
      [] status = "anomalous" -> 3

\* growth rates in MB/h, in halves: below, on and above each threshold
OtherRates ==
    {[num |-> n, den |-> 2] :
        n \in {-40, 0, 30, 39, 40, 41, 60, 99, 100, 101, 160}}

\* r1 <= r2 for two ratios
RatioAtMost(r1, r2) == r1.num * r2.den <= r2.num * r1.den

\* C14: classification is monotonic in the growth rate: for a fixed
\* rss_growth_percent and two rates r1 <= r2, the verdict for r2 is never a
\* better tier than the verdict for r1 (Normal < Suspicious < Anomalous).
C14_MonotoneInRate ==
    Reported =>
        \A r2 \in OtherRates :
            LET r1 == summary.rss_growth_per_hour
                p == summary.rss_growth_percent
            IN  /\ RatioAtMost(r1, r2) =>
                       Tier(Classify(r2, p)) >= Tier(summary.status)
                /\ RatioAtMost(r2, r1) =>
                       Tier(Classify(r2, p)) <= Tier(summary.status)

\* a run of 15 MB/h and 3% is Suspicious; at the same percent 50 MB/h is
\* Anomalous and 0 MB/h is Suspicious still
C14_Witness ==
    /\ Reported
    /\ PairIs(150, 30)
    /\ summary.status = "suspicious"
    /\ Classify([num |-> 100, den |-> 2], summary.rss_growth_percent)
           = "anomalous"
    /\ Classify([num |-> 0, den |-> 2], summary.rss_growth_percent)
           = "suspicious"

\* the run spans no time, or its last sample is stamped before its first
BadDuration ==
    /\ Len(samples) >= 2
    /\ samples[Len(samples)].time <= samples[1].time

\* C15: when the duration of the run is zero or negative, with at least 2
\* samples, the classifier treats the input as malformed: it substitutes no
\* growth rate and issues no Normal / Suspicious / Anomalous verdict.
C15_BadDurationNoVerdict ==
    (pc = "done" /\ BadDuration) =>
        /\ ~summary.produced
        /\ summary.status = "none"

-----------------------------------------------------------------------------
(* Properties of a run with a single sample *)

\* parse_log_file has returned a list of exactly one sample
OneSampleRun == ScanReturned /\ Len(samples) = 1

\* C16: with exactly one valid sample the run does not fail as a whole: the
\* per-sample report is written with one row, calculate_hourly_growth
\* returns the empty list without error, generate_summary_report gives the
\* insufficient-data warning and no verdict, and the run ends normally.
C16_OneSampleRunCompletes ==
    OneSampleRun =>
        /\ pc \in {"main_check", "generate_csv_report",
                   "calculate_hourly_growth", "generate_summary_report",
                   "done"}
        /\ exc = ""
        /\ exit_status = (IF pc = "done" THEN 0 ELSE -1)
        /\ pc # "done" => ENABLED Next
        /\ hourly_called => hourly_stats = <<>>
        /\ pc = "done" =>
               /\ csv_written
               /\ Len(csv_rows) = 1
               /\ csv_rows[1].time = samples[1].time
               /\ csv_rows[1].rss_mb = samples[1].rss_mb
               /\ hourly_called
               /\ summary.warning
               /\ ~summary.produced
               /\ summary.status = "none"

\* a log of three lines of which one is a sample has been analysed to the end
C16_Witness ==
    /\ OneSampleRun
    /\ pc = "done"
    /\ Len(lines) = 3
    /\ csv_written
    /\ summary.warning

-----------------------------------------------------------------------------
(* Properties of what the verdict depends on *)

\* another sample with the timestamp and rss_mb of s
SameSpan(s) == [s EXCEPT !.gc = s.gc + 7, !.goroutines = s.goroutines + 3]

\* the runs that share the first and last sample (timestamp and rss_mb) of
\* the run analysed, with other samples, or none, in between
SameEnds ==
    {<<SameSpan(samples[1])>> \o mid \o <<SameSpan(samples[Len(samples)])>> :
        mid \in SeqsUpTo(MidSamples, MaxMiddle)}

\* window lists other than the one computed from the run
OtherWindows == {<<>>, hourly_stats, hourly_stats \o hourly_stats}

\* C17: the verdict depends only on the first and the last sample of the run:
\* two runs with the same first and last sample (timestamp and rss_mb) get
\* the same verdict, whatever their intermediate samples and whatever the
\* hourly window list passed in.
C17_VerdictOfFirstAndLast ==
    (Reported /\ Len(samples) >= 2) =>
        \A other \in SameEnds, stats \in OtherWindows :
            SummaryReport(other, stats).status = summary.status

\* a run of 15 MB/h and 1.5% with a peak of 3000 MB in between, which makes
\* its only window grow by 2000 MB, is Normal
C17_Witness ==
    /\ Reported
    /\ Len(samples) = 3
    /\ samples[2].rss_mb = 3000
    /\ PairIs(150, 15)
    /\ Len(hourly_stats) = 1
    /\ hourly_stats[1].rss_growth_mb = 2000
    /\ summary.status = "normal"

-----------------------------------------------------------------------------
(* Properties of the live snapshot *)

\* analyze_memory has ranked a non-empty snapshot
Ranked ==
    \/ mpc \in {"table", "flags"}
    \/ mpc = "done" /\ result # "no_module_data"

\* approx_bytes of a record, an absent one counted as 0
SizeOf(m) ==
    IF m["approx_bytes"].t = "absent" THEN 0 ELSE m["approx_bytes"].n

\* the ways to number N rows by N different positions
Numberings(n) ==
    {f \in [1..n -> 1..n] : \A i, j \in 1..n : f[i] = f[j] => i = j}

\* C18: for a non-empty snapshot of N records the ranked sequence is a
\* permutation of the same N records (records with the same module name are
\* kept as separate rows), non-increasing by approx_bytes with an absent
\* approx_bytes counted as 0, and records of equal approx_bytes keep their
\* order of the snapshot.
C18_RankedStablePermutation ==
    Ranked =>
        LET n == Len(modules)
        IN  /\ n > 0
            /\ Len(sorted_modules) = n
            /\ \A i \in 1..(n - 1) :
                   SizeOf(sorted_modules[i]) >= SizeOf(sorted_modules[i + 1])
            /\ \E f \in Numberings(n) :
                   /\ \A i \in 1..n : sorted_modules[i] = modules[f[i]]
                   /\ \A i, j \in 1..n :
                          (i < j /\ SizeOf(sorted_modules[i])
                                        = SizeOf(sorted_modules[j]))
                              => f[i] < f[j]
            /\ mpc \in {"flags", "done"} => Len(table) = n

\* two different records of one module name, one without approx_bytes and
\* one of 0 bytes, stay in snapshot order below a larger record that came last
C18_Witness ==
    /\ Ranked
    /\ mpc = "done"
    /\ Len(modules) = 2
    /\ modules[1] # modules[2]
    /\ modules[1]["module"] = modules[2]["module"]
    /\ modules[1]["approx_bytes"].t = "absent"
    /\ SizeOf(modules[2]) = 0
    /\ sorted_modules = modules
    /\ Len(table) = 2

\* the sum of approx_bytes over the records of a snapshot, in snapshot order
RECURSIVE SumOfSizes(_)
SumOfSizes(list) ==
    IF list = <<>>
    THEN 0
    ELSE SizeOf(list[1]) + SumOfSizes(SubSeq(list, 2, Len(list)))

\* the sizes of the records, in snapshot order
SizesOf(list) == [i \in 1..Len(list) |-> SizeOf(list[i])]

\* C19: the grand total reported for a snapshot is the exact sum of
\* approx_bytes over all its records, whatever the ranking order: records of
\* 150,000,000 and 50,000,000 bytes give 200,000,000 bytes (shown by
\* format_bytes as 190.73 MB).
C19_TotalIsExactSum ==
    total_row.printed =>
        /\ total_row.bytes = SumOfSizes(modules)
        /\ SizesOf(modules) \in {<<150000000, 50000000>>,
                                 <<50000000, 150000000>>}
               => /\ total_row.bytes = 200000000
                  /\ total_row.text = [unit |-> "MB", hundredths |-> 19073]

\* the smaller record came first in the snapshot and second in the ranking;
\* the total is 200,000,000 bytes
C19_Witness ==
    /\ total_row.printed
    /\ SizesOf(modules) = <<50000000, 150000000>>
    /\ SizesOf(sorted_modules) = <<150000000, 50000000>>
    /\ total_row.bytes = 200000000

FlagKinds == {"memory", "objects", "queue_length", "cache_items"}

\* a counter of a record, an absent one counted as 0
CounterOf(m, key) == IF m[key].t = "absent" THEN 0 ELSE m[key].n

\* the flags a record is to raise: each from its own counter, strictly above
\* its threshold (100 MB is 100 * 1024 * 1024 bytes)
ExpectedFlags(m) ==
    {k \in FlagKinds :
        \/ k = "memory" /\ CounterOf(m, "approx_bytes") > 100 * 1024 * 1024
        \/ k = "objects" /\ CounterOf(m, "objects") > 100000
        \/ k = "queue_length" /\ CounterOf(m, "queue_length") > 10000
        \/ k = "cache_items" /\ CounterOf(m, "cache_items") > 100000}

KindsIn(list) == {list[i].kind : i \in 1..Len(list)}

\* the entries a step has added at the end of a list
AddedTo(before, after) == SubSeq(after, Len(before) + 1, Len(after))

\* one iteration of the flag loop adds, for its record, exactly the flags
\* the record is to raise: the memory flag to the issues, the others to the
\* warnings, and keeps what was raised before
FlagStep ==
    (mpc = "flags" /\ cursor < Len(sorted_modules) /\ cursor' = cursor + 1) =>
        LET m == sorted_modules[cursor + 1]
            new_issues == AddedTo(issues, issues')
            new_warnings == AddedTo(warnings, warnings')
        IN  /\ SubSeq(issues', 1, Len(issues)) = issues
            /\ SubSeq(warnings', 1, Len(warnings)) = warnings
            /\ KindsIn(new_issues) = ExpectedFlags(m) \cap {"memory"}
            /\ KindsIn(new_warnings) = ExpectedFlags(m) \ {"memory"}
            /\ Len(new_issues) + Len(new_warnings)
                   = Cardinality(ExpectedFlags(m))
            /\ \A i \in 1..Len(new_issues) :
                   new_issues[i].module = m["module"].s
            /\ \A i \in 1..Len(new_warnings) :
                   new_warnings[i].module = m["module"].s

\* every set of flags is the set some record raises
EverySubsetRaised ==
    \A S \in SUBSET FlagKinds :
        \E m \in ModuleRecords :
            KindsIn(ModuleIssues(m) \o ModuleWarnings(m)) = S

\* C20: for each record the four flags are evaluated independently, each
\* from its own counter and with a strict comparison: high memory iff
\* approx_bytes / 1024 / 1024 > 100, objects iff objects > 100,000, queue iff
\* queue_length > 10,000, cache iff cache_items > 100,000; a value exactly at
\* its threshold raises nothing, any of the 16 subsets of flags can be raised
\* by one record, and raising one flag never suppresses another.
C20_FlagsIndependentAndStrict ==
    /\ [][FlagStep]_vars
    /\ [](EverySubsetRaised)
    /\ [](mpc = "done" /\ result # "no_module_data" =>
             /\ Len(issues) + Len(warnings)
                    = Cardinality({x \in (1..Len(modules)) \X FlagKinds :
                                      x[2] \in ExpectedFlags(modules[x[1]])})
             /\ result = "no_problems" <=>
                    \A i \in 1..Len(modules) : ExpectedFlags(modules[i]) = {})

\* a snapshot of a record with every counter exactly at its threshold, which
\* raised nothing, and a record with every counter one above, which raised
\* all four flags
C20_Witness ==
    /\ mpc = "done"
    /\ Len(modules) = 2
    /\ \E i, j \in 1..2 :
           /\ CounterOf(modules[i], "approx_bytes") = 100 * 1024 * 1024
           /\ CounterOf(modules[i], "objects") = 100000
           /\ CounterOf(modules[i], "queue_length") = 10000
           /\ CounterOf(modules[i], "cache_items") = 100000
           /\ ExpectedFlags(modules[j]) = FlagKinds
    /\ Len(issues) = 1
    /\ KindsIn(warnings) = FlagKinds \ {"memory"}
    /\ Len(warnings) = 3

-----------------------------------------------------------------------------
(* Properties of the request and of an empty snapshot *)

\* analyze_memory has been handed a payload without module records
EmptySnapshot ==
    /\ response.kind = "ok"
    /\ response.object
    /\ ~response.has_modules \/ response.modules = <<>>
    /\ mpc \notin {"fetch_memory_data", "analyze_memory"}

\* C21: an empty module snapshot (the list empty or absent from the payload)
\* ends the analysis in the distinct 'no module data' condition: no ranking
\* table, no total, no issue, no warning and no 'no problems found' result.
C21_EmptySnapshotIsNoModuleData ==
    EmptySnapshot =>
        /\ mpc = "done"
        /\ result = "no_module_data"
        /\ sorted_modules = <<>>
        /\ table = <<>>
        /\ ~total_row.printed
        /\ issues = <<>>
        /\ warnings = <<>>

\* a payload that has a "modules" key with an empty list has been analysed
C21_Witness ==
    /\ EmptySnapshot
    /\ response.has_modules
    /\ mpc = "done"
    /\ result = "no_module_data"
    /\ requests = 1

\* the request has been made and the endpoint was unreachable or its body
\* was not valid JSON
FetchFailed ==
    /\ response.kind \in {"URLError", "JSONDecodeError"}
    /\ mpc # "fetch_memory_data"

\* analyze_memory has been invoked
Analysing ==
    \/ mpc \in {"analyze_memory", "table", "flags", "done"}
    \/ mpc = "crashed" /\ response.kind = "ok"

\* nothing of analyze_memory has happened
NothingAnalysed ==
    /\ modules = <<>>
    /\ sorted_modules = <<>>
    /\ table = <<>>
    /\ ~total_row.printed
    /\ issues = <<>>
    /\ warnings = <<>>
    /\ result = ""

\* C22: the live snapshot is fetched with exactly one request: when the
\* endpoint is unreachable or returns a payload that is not valid JSON, the
\* run ends in an error state (exit status 1) without any retry and
\* analyze_memory is never invoked; analyze_memory runs only after a
\* successful fetch.
C22_OneRequestFailFast ==
    /\ [](requests <= 1)
    /\ [](mpc # "fetch_memory_data" => requests = 1)
    /\ [](FetchFailed =>
             /\ mpc = "exit"
             /\ live_status = 1
             /\ NothingAnalysed)
    /\ [][mpc = "exit" => mpc' = "exit" /\ requests' = requests]_vars
    /\ [](mpc = "exit" => ~ENABLED NextLive)
    /\ [](Analysing => response.kind = "ok" /\ requests = 1)

\* the body of the answer was not JSON: one request, exit status 1, nothing
\* analysed
C22_Witness ==
    /\ FetchFailed
    /\ response.kind = "JSONDecodeError"
    /\ requests = 1
    /\ mpc = "exit"
    /\ live_status = 1

-----------------------------------------------------------------------------
(* Properties of the accumulator of calculate_hourly_growth *)

\* the open bucket after at least one sample: not empty, all of the hour of
\* the anchor, and the block of the input that ends at the last sample read
Accumulating ==
    /\ hour_samples # <<>>
    /\ \A i \in 1..Len(hour_samples) :
           CalendarHour(hour_samples[i].time) * MinutesPerHour
               = current_hour_start
    /\ Len(hour_samples) <= idx
    /\ hour_samples = SubSeq(samples, idx - Len(hour_samples) + 1, idx)

\* an iteration either extends the bucket by its sample or, on a change of
\* the key and only then, replaces it
ReplacedOnKeyChangeOnly ==
    LoopStepped =>
        LET s == samples[idx + 1]
        IN  \/ ~OtherHour(s) /\ hour_samples' = Append(hour_samples, s)
            \/ OtherHour(s) /\ hour_samples' = <<s>>

\* C23: during the scan of calculate_hourly_growth, after each processed
\* sample the accumulator is Accumulating: the open bucket is non-empty,
\* every sample in it truncates to the bucket's anchor, its samples are a
\* contiguous block of the input ending at the sample just processed, and
\* only a change of the bucket key replaces the bucket (before the first
\* sample the bucket is empty).
C23_AccumulatingAfterEachSample ==
    /\ [](pc = "hourly_loop" =>
             IF idx = 0 THEN hour_samples = <<>> ELSE Accumulating)
    /\ [][ReplacedOnKeyChangeOnly]_vars
    /\ [][pc = "hourly_loop" /\ pc' # "hourly_loop" =>
              hour_samples' = hour_samples]_vars

\* three samples read: the first alone in its hour, the next two in another
\* hour and in the open bucket
C23_Witness ==
    /\ pc = "hourly_loop"
    /\ idx = 3
    /\ Len(hour_samples) = 2
    /\ hour_samples = SubSeq(samples, 2, 3)
    /\ current_hour_start
           # CalendarHour(samples[1].time) * MinutesPerHour

\* the last run of same-hour samples of a non-empty list
LastRun(list) ==
    LET runs == RunsOf(list)
    IN  runs[Len(runs)]

\* C24: after the scan the final open bucket is flushed under the same rule
\* as any other: when the last run of same-hour samples has at least 2
\* samples it is emitted as the last window, with the values of its first
\* and last sample; when it has exactly one sample nothing is emitted for it.
C24_FinalBucketFlushed ==
    (HourlyReturned /\ Len(samples) >= 2) =>
        LET run == LastRun(samples)
            n == Len(hourly_stats)
        IN  /\ n = Len(GrowthRuns(samples))
            /\ Len(run) >= 2 =>
                   /\ n >= 1
                   /\ hourly_stats[n].hour
                          = CalendarHour(run[1].time) * MinutesPerHour
                   /\ hourly_stats[n].sample_count = Len(run)
                   /\ hourly_stats[n].rss_start_mb = run[1].rss_mb
                   /\ hourly_stats[n].rss_end_mb = run[Len(run)].rss_mb
                   /\ hourly_stats[n].rss_growth_mb
                          = run[Len(run)].rss_mb - run[1].rss_mb
                   /\ hourly_stats[n].gc_growth = run[Len(run)].gc - run[1].gc
            /\ Len(run) = 1 =>
                   n = Len(GrowthRuns(SubSeq(samples, 1, Len(samples) - 1)))

\* two samples of one hour and then two of the next: the second window is
\* the one of the final bucket
C24_Witness ==
    /\ HourlyReturned
    /\ Len(samples) = 4
    /\ Len(LastRun(samples)) = 2
    /\ Len(hourly_stats) = 2
    /\ hourly_stats[2].rss_end_mb = samples[4].rss_mb
    /\ hourly_stats[2].rss_start_mb = samples[3].rss_mb
    /\ samples[3].rss_mb # samples[4].rss_mb

\* the first and the last sample of a run
Boundary(run) == <<run[1], run[Len(run)]>>

\* two windows agree on their anchor and on every growth figure
SameWindowValues(v, w) ==
    /\ v.hour = w.hour
    /\ v.rss_start_mb = w.rss_start_mb
    /\ v.rss_end_mb = w.rss_end_mb
    /\ v.rss_growth_mb = w.rss_growth_mb
    /\ v.rss_growth_percent = w.rss_growth_percent
    /\ v.gc_growth = w.gc_growth
    /\ v.goroutines_growth = w.goroutines_growth

\* C25: calculate_hourly_growth is deterministic (the window list is a
\* function of the input sequence), and for every emitted window,
\* aggregating only that bucket's first and last sample gives a single
\* window with the same window_start, rss_start_mb, rss_end_mb,
\* rss_growth_mb, rss_growth_percent, gc_growth and goroutines_growth.
C25_ReaggregationReproducesWindow ==
    HourlyReturned =>
        /\ hourly_stats = calculate_hourly_growth(samples)
        /\ LET runs == GrowthRuns(samples)
           IN  \A k \in 1..Len(hourly_stats) :
                   k <= Len(runs) =>
                       LET again == calculate_hourly_growth(Boundary(runs[k]))
                       IN  /\ Len(again) = 1
                           /\ SameWindowValues(again[1], hourly_stats[k])

\* a bucket of three samples whose middle value lies outside the range of
\* its first and last
C25_Witness ==
    /\ HourlyReturned
    /\ Len(samples) = 3
    /\ Len(hourly_stats) = 1
    /\ hourly_stats[1].sample_count = 3
    /\ samples[2].rss_mb < samples[1].rss_mb
    /\ samples[2].rss_mb < samples[3].rss_mb
    /\ samples[2].gc > samples[3].gc

-----------------------------------------------------------------------------
(* Properties of the analysis as a whole *)

\* C26: samples are immutable after extraction: calculate_hourly_growth and
\* generate_summary_report leave the sample sequence unchanged (same length,
\* same order, every field of every sample), so the verdict computed after
\* the aggregation is the verdict that would be computed before it.
C26_SamplesUnchanged ==
    /\ [][samples' = samples]_vars
    /\ [][SummaryReport(samples', <<>>).status
              = SummaryReport(samples, <<>>).status]_vars
    /\ [](Reported => summary.status = SummaryReport(samples, <<>>).status)

\* a run given out of time order went through the aggregation, which made a
\* window, and through the report, and is still out of time order
C26_Witness ==
    /\ Reported
    /\ Len(samples) = 3
    /\ samples[1].time > samples[3].time
    /\ samples[1].rss_mb < samples[3].rss_mb
    /\ Len(hourly_stats) = 1

-----------------------------------------------------------------------------
(* Properties of the windows as a whole *)

\* the same samples with other values in heap_mb and heap_inuse_bytes
OtherHeapFields(list) ==
    [i \in 1..Len(list) |->
        [list[i] EXCEPT !.heap_mb = 5 + 3 * i, !.heap_inuse_bytes = 11 * i]]

\* C27: a window's heap_growth_mb is determined only by the
\* heap_alloc_bytes of the bucket's first and last sample (last minus first,
\* scaled to MB): two inputs that differ only in the samples' heap_mb or
\* heap_inuse_bytes give the same heap_growth_mb in every window.
C27_HeapGrowthFromAllocBytes ==
    HourlyReturned =>
        LET other == calculate_hourly_growth(OtherHeapFields(samples))
            runs == GrowthRuns(samples)
        IN  /\ Len(other) = Len(hourly_stats)
            /\ \A k \in 1..Len(hourly_stats) :
                   /\ other[k].heap_growth_mb = hourly_stats[k].heap_growth_mb
                   /\ k <= Len(runs) =>
                          LET run == runs[k]
                              h == hourly_stats[k].heap_growth_mb
                          IN  /\ h.den = 1024 * 1024
                              /\ h.num = run[Len(run)].heap_alloc_bytes
                                             - run[1].heap_alloc_bytes

\* a window whose heap shrank by 2 MB between its first and last sample
C27_Witness ==
    /\ HourlyReturned
    /\ Len(hourly_stats) = 1
    /\ Len(samples) = 3
    /\ hourly_stats[1].sample_count = 3
    /\ hourly_stats[1].heap_growth_mb.num = -2 * 1024 * 1024
    /\ samples[2].heap_alloc_bytes = 1024 * 1024

\* the sum of sample_count over a list of windows
RECURSIVE SumOfCounts(_)
SumOfCounts(stats) ==
    IF stats = <<>>
    THEN 0
    ELSE stats[1].sample_count + SumOfCounts(SubSeq(stats, 2, Len(stats)))

\* the buckets that held a single sample
SingleBuckets(list) ==
    LET runs == RunsOf(list)
    IN  {k \in 1..Len(runs) : Len(runs[k]) = 1}

\* C28: every sample of the input is assigned to exactly one bucket, none is
\* lost or counted twice: for an input of n >= 2 samples, the sum of
\* sample_count over all emitted windows plus the number of single-sample
\* buckets is n.
C28_EverySampleInOneBucket ==
    (HourlyReturned /\ Len(samples) >= 2) =>
        SumOfCounts(hourly_stats) + Cardinality(SingleBuckets(samples))
            = Len(samples)

\* four samples: a bucket of one, a bucket of two that made a window, and a
\* bucket of one
C28_Witness ==
    /\ HourlyReturned
    /\ Len(samples) = 4
    /\ Cardinality(SingleBuckets(samples)) = 2
    /\ Len(hourly_stats) = 1
    /\ hourly_stats[1].sample_count = 2
    /\ hourly_stats[1].rss_start_mb = samples[2].rss_mb

\* the distinct truncated-to-hour keys of a list of samples
HourKeys(list) == {CalendarHour(list[i].time) : i \in 1..Len(list)}

-----------------------------------------------------------------------------
(* Properties of a run that did not grow *)

\* the run has at least 2 samples and its last RSS is not above its first
NoGrowth ==
    /\ Len(samples) >= 2
    /\ samples[Len(samples)].rss_mb <= samples[1].rss_mb

\* C30: a run that did not grow is always Normal: for every run of at least
\* 2 samples whose last rss_mb is not above its first, whatever its duration
\* and its baseline, the verdict is Normal.
C30_NoGrowthIsNormal ==
    (pc = "done" /\ NoGrowth) =>
        /\ summary.produced
        /\ summary.status = "normal"

\* a run stamped backwards that fell from 1000 MB to 500 MB, and reached a
\* peak between the two, was reported Normal
C30_Witness ==
    /\ Reported
    /\ NoGrowth
    /\ Len(samples) = 3
    /\ samples[1].rss_mb = 1000
    /\ samples[3].rss_mb = 500
    /\ samples[3].time < samples[1].time
    /\ samples[2].rss_mb > samples[1].rss_mb
    /\ summary.status = "normal"

=============================================================================
